---- MODULE Spec2Model ----
(***************************************************************************)
(* Model of the phishing risk-scoring orchestrator, checkPhishing, of      *)
(* src/modules/moderation/phishingService.js, with its heuristics          *)
(* (src/unnamed/part_001) and its default configuration                    *)
(* (src/unnamed/part_002, lines 56-98).                                    *)
(*                                                                         *)
(* Numbers.  A JavaScript number is the record [nan, v]: v is the value in *)
(* hundredths of a score point (30 points = 3000), nan marks NaN.  A       *)
(* probability is an integer percentage, so that probability * 50 is a     *)
(* value in hundredths of a point.  A feature value is in hundredths too.  *)
(*                                                                         *)
(* Strings.  A string is its JavaScript text; what the library calls       *)
(* (new URL, tldjs, RegExp, String.includes, string-similarity) answer     *)
(* about a string is tabulated for the strings of the catalogue below.     *)
(***************************************************************************)
EXTENDS Integers, Sequences, FiniteSets, TLC

VARIABLES
    pc,              \* position of the checkPhishing call
    input,           \* its argument { url?, message? } ("" = absent)
    cfg,             \* const cfg = Object.assign({}, config, userCfg)
    injectedModel,   \* options.model: none, or a model with a fixed answer
    url,             \* the candidate URL
    riskScore,       \* let riskScore
    reasons,         \* const reasons
    features,        \* const features
    asyncTasks,      \* per verifier, its promise: "none" (not launched),
                     \* "pending", "settled", "hung" (pending for ever)
    outcome,         \* per verifier: what its external call produced
    result,          \* what the call returned, NoResult before
    evaluated,       \* the synchronous evaluators have run
    mlConsulted,     \* realModel.predict has been called
    customPatterns,  \* module-level let customPatterns
    env,             \* names of the credentials set in process.env
    config,          \* the module's default configuration object (exported)
    first            \* ReplaySpec: the previous run, NoRun before;
                     \* PatternSpec: what the call in flight started with;
                     \* ConcurrentSpec: the other call in flight

vars == <<pc, input, cfg, injectedModel, url, riskScore, reasons, features, asyncTasks,
          outcome, result, evaluated, mlConsulted, customPatterns, env, config,
          first>>

-----------------------------------------------------------------------------
(* Bounds of the model *)

\* VirusTotal reports at most this many malicious + suspicious engines
MaxVtHits == 1

\* at most this many threat-intel credentials are configured at once
MaxCredentials == 1

-----------------------------------------------------------------------------
(* JavaScript numbers *)

Num(n) == [nan |-> FALSE, v |-> n]
NaN == [nan |-> TRUE, v |-> 0]

\* a number of score points, as a value in hundredths
Points(p) == Num(p * 100)

\* a + b
JsAdd(a, b) == IF a.nan \/ b.nan THEN NaN ELSE Num(a.v + b.v)

\* a * n for an integer n
JsTimes(a, n) == IF a.nan THEN NaN ELSE Num(a.v * n)

\* a > b: every comparison with NaN is false
JsGreater(a, b) == ~a.nan /\ ~b.nan /\ a.v > b.v

-----------------------------------------------------------------------------
(* Default configuration *)

Weights == [ipAddress |-> 30, shortener |-> 20, typosquatting |-> 40,
            idnHomograph |-> 35, idnSimilarity |-> 20, suspiciousTld |-> 15,
            keyword |-> 10, longUrl |-> 10, nonHttps |-> 25, dnsFailure |-> 20,
            atSymbol |-> 30, encodedChars |-> 15, redirect |-> 20,
            googleSafeBrowsing |-> 50, virusTotal |-> 30, phishTank |-> 60]

LegitDomains == <<"paypal.com", "google.com", "bankofamerica.com", "apple.com",
                  "amazon.com", "microsoft.com", "facebook.com", "twitter.com",
                  "instagram.com", "netflix.com", "chase.com", "wellsfargo.com",
                  "citibank.com", "usbank.com", "capitalone.com">>

PhishingKeywords == <<"login", "secure", "account", "verify", "update",
                      "banking", "password", "signin", "auth", "recovery",
                      "billing", "payment", "support", "helpdesk">>

SuspiciousTLDs == <<"tk", "ml", "ga", "cf", "gq", "xyz", "top", "club", "site",
                    "online">>

UrlShorteners == <<"bit.ly", "tinyurl.com", "goo.gl", "t.co", "ow.ly", "is.gd",
                   "buff.ly">>

DefaultPhishingScore == 50

Config == [legitDomains |-> LegitDomains,
           phishingKeywords |-> PhishingKeywords,
           suspiciousTLDs |-> SuspiciousTLDs,
           urlShorteners |-> UrlShorteners,
           thresholds |-> [phishingScore |-> DefaultPhishingScore],
           weights |-> Weights]

-----------------------------------------------------------------------------
(* The catalogue of strings, and what the libraries answer about them *)

PaypalTkUrl == "http://paypal.com.example.tk/login"
ExampleUrl == "https://example.com"
IpUrl == "http://192.168.0.1"
NotAUrl == "not a url"
GoodEvilUrl == "https://good.com/evil"
TypoUrl == "http://paypa1.com/verify?account=1"
ShortUrl == "https://bit.ly/a@b%41"
LocalhostUrl == "https://localhost/"
LongUrl == "https://example.com/<101 times a>"

NoLinkMessage == "no link here"
UrgentMessage == "urgent: evil link https://example.com now"

\* new URL(u) and tldjs on its hostname, u.length, and the substrings and
\* regular expressions the evaluators look for in u.  tldNull: tldjs derives
\* no registrable domain (an IP literal, a single-label host) and answers null.
\* The fields: parses (new URL succeeds), protocol, hostname, labels
\* (hostname.split('.')), tldNull, domain (tld.getDomain), subdomain
\* (tld.getSubdomain(hostname).split('.')), pathQuery (the keywords found in
\* the lower-cased pathname + search), length (url.length), contains (the
\* searched substrings found in url), encoded (the encoded-characters regular
\* expressions match), ipSyntax (the IP-literal regular expressions match).
UrlFact(ok, pr, h, ls, tn, d, sd, pq, len, ct, enc, ip) ==
    [parses |-> ok, protocol |-> pr, hostname |-> h, labels |-> ls,
     tldNull |-> tn, domain |-> d, subdomain |-> sd, pathQuery |-> pq,
     length |-> len, contains |-> ct, encoded |-> enc, ipSyntax |-> ip]

UrlFacts ==
    (PaypalTkUrl :> UrlFact(TRUE, "http:", "paypal.com.example.tk",
        <<"paypal", "com", "example", "tk">>, FALSE, "example.tk",
        <<"paypal", "com">>, {"login"}, 34, {}, FALSE, FALSE))
 @@ (ExampleUrl :> UrlFact(TRUE, "https:", "example.com",
        <<"example", "com">>, FALSE, "example.com",
        <<"">>, {}, 19, {}, FALSE, FALSE))
 @@ (IpUrl :> UrlFact(TRUE, "http:", "192.168.0.1",
        <<"192", "168", "0", "1">>, TRUE, "",
        <<>>, {}, 18, {}, FALSE, TRUE))
 @@ (NotAUrl :> UrlFact(FALSE, "", "",
        <<>>, TRUE, "",
        <<>>, {}, 9, {}, FALSE, FALSE))
 @@ (GoodEvilUrl :> UrlFact(TRUE, "https:", "good.com",
        <<"good", "com">>, FALSE, "good.com",
        <<"">>, {}, 21, {"evil"}, FALSE, FALSE))
 @@ (TypoUrl :> UrlFact(TRUE, "http:", "paypa1.com",
        <<"paypa1", "com">>, FALSE, "paypa1.com",
        <<"">>, {"account", "verify"}, 34, {}, FALSE, FALSE))
 @@ (ShortUrl :> UrlFact(TRUE, "https:", "bit.ly",
        <<"bit", "ly">>, FALSE, "bit.ly",
        <<"">>, {}, 21, {"@"}, TRUE, FALSE))
 @@ (LocalhostUrl :> UrlFact(TRUE, "https:", "localhost",
        <<"localhost">>, TRUE, "",
        <<>>, {}, 18, {}, FALSE, FALSE))
 @@ (LongUrl :> UrlFact(TRUE, "https:", "example.com",
        <<"example", "com">>, FALSE, "example.com",
        <<"">>, {}, 121, {}, FALSE, FALSE))

\* message.match(/(https?:\/\/[^\s]+)/g) and the substrings looked for in it
MessageFacts ==
    (NoLinkMessage :> [urls |-> <<>>, contains |-> {}])
 @@ (UrgentMessage :> [urls |-> <<ExampleUrl>>, contains |-> {"urgent", "evil"}])

\* the urgency phrases of the standalone simulation (urgencyWords); the
\* service has no such list
UrgencyWords == {"urgent", "immediate", "action required", "suspended",
                 "verify now", "click here"}

\* stringSimilarity.compareTwoStrings(a, b), in hundredths (rounded): the
\* Dice coefficient of the two strings' letter pairs; 1 for equal strings
Dice ==
    ("example.tk" :> [google |-> 22, bankofamerica |-> 8, apple |-> 35,
                      amazon |-> 11, instagram |-> 10, chase |-> 12,
                      capitalone |-> 9])
 @@ ("example.com" :> [paypal |-> 32, google |-> 53, bankofamerica |-> 31,
                       apple |-> 67, amazon |-> 42, microsoft |-> 27,
                       facebook |-> 29, twitter |-> 30, instagram |-> 36,
                       netflix |-> 30, chase |-> 44, wellsfargo |-> 26,
                       citibank |-> 29, usbank |-> 32, capitalone |-> 35])
 @@ ("good.com" :> [paypal |-> 38, google |-> 62, bankofamerica |-> 26,
                    apple |-> 40, amazon |-> 38, microsoft |-> 32,
                    facebook |-> 44, twitter |-> 35, instagram |-> 32,
                    netflix |-> 35, chase |-> 40, wellsfargo |-> 40,
                    citibank |-> 33, usbank |-> 38, capitalone |-> 30])
 @@ ("paypa1.com" :> [paypal |-> 78, google |-> 33, bankofamerica |-> 24,
                      apple |-> 35, amazon |-> 33, microsoft |-> 29,
                      facebook |-> 30, twitter |-> 32, instagram |-> 29,
                      netflix |-> 32, chase |-> 35, wellsfargo |-> 27,
                      citibank |-> 30, usbank |-> 33, capitalone |-> 27])
 @@ ("bit.ly" :> [microsoft |-> 12, twitter |-> 13, citibank |-> 12,
                  capitalone |-> 11])

\* the name of a legitimate domain in the table above
DiceKey ==
    ("paypal.com" :> "paypal") @@ ("google.com" :> "google")
 @@ ("bankofamerica.com" :> "bankofamerica") @@ ("apple.com" :> "apple")
 @@ ("amazon.com" :> "amazon") @@ ("microsoft.com" :> "microsoft")
 @@ ("facebook.com" :> "facebook") @@ ("twitter.com" :> "twitter")
 @@ ("instagram.com" :> "instagram") @@ ("netflix.com" :> "netflix")
 @@ ("chase.com" :> "chase") @@ ("wellsfargo.com" :> "wellsfargo")
 @@ ("citibank.com" :> "citibank") @@ ("usbank.com" :> "usbank")
 @@ ("capitalone.com" :> "capitalone")

compareTwoStrings(a, b) ==
    IF a = b THEN 100
    ELSE IF a \in DOMAIN Dice /\ b \in DOMAIN DiceKey
            /\ DiceKey[b] \in DOMAIN Dice[a]
         THEN Dice[a][DiceKey[b]]
         ELSE 0

\* new RegExp(p, 'i') throws for these patterns
InvalidPatterns == {"("}

\* seq.includes(x)
Includes(seq, x) == \E i \in 1..Len(seq) : seq[i] = x

-----------------------------------------------------------------------------
(* Heuristic helpers *)

\* tld.getDomain(hostname): "" stands for null
getDomain(u) == IF UrlFacts[u].tldNull THEN "" ELSE UrlFacts[u].domain

\* hostname.split('.') and its last part
getTld(u) ==
    LET parts == UrlFacts[u].labels
    IN  IF Len(parts) > 0 THEN parts[Len(parts)] ELSE ""

isIpAddress(u) == UrlFacts[u].ipSyntax

\* compareTwoStrings(domain, legit) throws a TypeError on a null domain, in
\* the first iteration of the loop
domainSimilarityThrows(u, legitDomains) ==
    UrlFacts[u].tldNull /\ Len(legitDomains) > 0

\* the index of the first legitimate domain that is similar and different,
\* 0 for the null result
domainSimilarity(u, legitDomains) ==
    LET hit(i) == /\ compareTwoStrings(getDomain(u), legitDomains[i]) > 70
                  /\ getDomain(u) # legitDomains[i]
        hits == {i \in 1..Len(legitDomains) : hit(i)}
    IN  IF hits = {} THEN 0
        ELSE CHOOSE i \in hits : \A j \in hits : i <= j

\* punycode.toASCII(hostname): the hostname of a parsed URL is ASCII already
\* (the URL parser has converted it), and ASCII labels are left as they are
toASCII(hostname) == hostname

\* null unless the ASCII form differs from the hostname; then the index of the
\* first legitimate domain more than 0.8 similar to it (0: { homograph: true })
isIdnHomograph(u, legitDomains) ==
    LET puny == toASCII(UrlFacts[u].hostname)
        hits == {i \in 1..Len(legitDomains) :
                    compareTwoStrings(puny, legitDomains[i]) > 80}
    IN  [idn |-> puny # UrlFacts[u].hostname,
         match |-> IF hits = {} THEN 0
                   ELSE CHOOSE i \in hits : \A j \in hits : i <= j]

\* getSubdomain(hostname) is null when tldjs derives no domain: .split throws
hasSuspiciousTldThrows(u) == UrlFacts[u].tldNull

hasSuspiciousTldOrDeepSubdomain(u, suspiciousTLDs) ==
    \/ Len(UrlFacts[u].subdomain) > 2
    \/ Includes(suspiciousTLDs, getTld(u))

\* keywords.filter(kw => lower.includes(kw)): in the order of the list
containsPhishingKeyword(u, keywords) ==
    SelectSeq(keywords, LAMBDA kw : kw \in UrlFacts[u].pathQuery)

isUrlLong(u) == UrlFacts[u].length > 100

isNonHttps(u) == UrlFacts[u].protocol # "https:"

containsAtSymbol(u) == "@" \in UrlFacts[u].contains

hasEncodedChars(u) == UrlFacts[u].encoded

\* matches ? matches[0] : null, "" for null
extractFirstUrlFromMessage(message) ==
    LET matches == MessageFacts[message].urls
    IN  IF Len(matches) > 0 THEN matches[1] ELSE ""


-----------------------------------------------------------------------------
(* checkPhishing: configuration, accumulators, synchronous evaluators *)

\* the user configurations of the model: options.config
NoOverride == [k \in {} |-> 0]
UserConfigs ==
    { NoOverride,
      [thresholds |-> [phishingScore |-> 0]],
      [thresholds |-> [phishingScore |-> 100]],
      [weights |-> [keyword |-> 5, nonHttps |-> 25]],
      [weights |-> [Weights EXCEPT !.nonHttps = -60]],
      [legitDomains |-> <<>>] }

\* mutant: with an override, the lists the caller does not give are empty
MergeConfigMutant(userCfg) ==
    [k \in DOMAIN Config |->
        IF k \in DOMAIN userCfg THEN userCfg[k]
        ELSE IF userCfg = NoOverride \/ k \in {"weights", "thresholds"}
             THEN Config[k]
             ELSE <<>>]

\* Object.assign({}, config, userCfg): a shallow merge, key by key, of the
\* default configuration object as it is at the call
MergeConfig(userCfg) ==
    [k \in DOMAIN config |->
        IF k \in DOMAIN userCfg THEN userCfg[k] ELSE config[k]]

\* mutant: Object.assign(config, userCfg), the default object is the target
ConfigAfterMergeMutant(userCfg) == MergeConfig(userCfg)

\* the default configuration object after Object.assign({}, config, userCfg):
\* the target is a new object, the sources are only read
ConfigAfterMerge(userCfg) == config

\* cfg.weights.<name> as a number: a missing entry is undefined, and a sum
\* with undefined is NaN
Weight(c, name) ==
    IF name \in DOMAIN c.weights THEN Points(c.weights[name]) ELSE NaN

\* a reason string: its fixed text and what is interpolated into it
Reason(text, arg, n) == [text |-> text, arg |-> arg, n |-> n]

EmptyAcc == [score |-> Num(0), reasons |-> <<>>, features |-> <<>>]

\* mutant: riskScore = w, the contribution takes the place of the score
EmitMutant(acc, w, r) ==
    [acc EXCEPT !.score = w, !.reasons = Append(@, r)]

\* riskScore += w; reasons.push(r)
Emit(acc, w, r) ==
    [acc EXCEPT !.score = JsAdd(@, w), !.reasons = Append(@, r)]

\* mutant: a reason that is in the list already is not pushed again
EmitFMutant(acc, w, r, f) ==
    [acc EXCEPT !.score = JsAdd(@, w),
                !.reasons = IF \E i \in 1..Len(@) : @[i] = r THEN @ ELSE Append(@, r),
                !.features = Append(@, f)]

\* riskScore += w; reasons.push(r); features.push(f)
EmitF(acc, w, r, f) ==
    [acc EXCEPT !.score = JsAdd(@, w), !.reasons = Append(@, r),
                !.features = Append(@, f)]

IpEvaluator(acc, c, u) ==
    IF isIpAddress(u)
    THEN EmitF(acc, Weight(c, "ipAddress"),
               Reason("URL uses IP address (potential obfuscation)", "", 0), 100)
    ELSE acc

ShortenerEvaluator(acc, c, u) ==
    IF Includes(c.urlShorteners, getDomain(u))
    THEN EmitF(acc, Weight(c, "shortener"),
               Reason("URL shortener detected (often hides phishing)", "", 0), 100)
    ELSE acc

TypoEvaluator(acc, c, u) ==
    LET typos == domainSimilarity(u, c.legitDomains)
        score == compareTwoStrings(getDomain(u), c.legitDomains[typos])
    IN  IF typos # 0
        THEN EmitF(acc, Weight(c, "typosquatting"),
                   Reason("Domain similar to", c.legitDomains[typos], score),
                   score)
        ELSE acc

IdnEvaluator(acc, c, u) ==
    LET idn == isIdnHomograph(u, c.legitDomains)
        a1 == EmitF(acc, Weight(c, "idnHomograph"),
                    Reason("Internationalized Domain Name (IDN) detected", "", 0),
                    100)
    IN  IF ~idn.idn THEN acc
        ELSE IF idn.match = 0 THEN a1
        ELSE Emit(a1, Weight(c, "idnSimilarity"),
                  Reason("Punycode similarity to", c.legitDomains[idn.match],
                         compareTwoStrings(toASCII(UrlFacts[u].hostname),
                                           c.legitDomains[idn.match])))

\* mutant: the evaluator never fires
TldEvaluatorMutant(acc, c, u) == acc

TldEvaluator(acc, c, u) ==
    IF hasSuspiciousTldOrDeepSubdomain(u, c.suspiciousTLDs)
    THEN EmitF(acc, Weight(c, "suspiciousTld"),
               Reason("Suspicious TLD or deep subdomain", "", 0), 100)
    ELSE acc

\* hits.forEach(k => ...)
RECURSIVE KeywordLoop(_, _, _)
KeywordLoop(acc, c, hits) ==
    IF hits = <<>> THEN acc
    ELSE KeywordLoop(EmitF(acc, Weight(c, "keyword"),
                           Reason("Phishing keyword in URL", Head(hits), 0), 100),
                     c, Tail(hits))

KeywordEvaluator(acc, c, u) ==
    KeywordLoop(acc, c, containsPhishingKeyword(u, c.phishingKeywords))

LongUrlEvaluator(acc, c, u) ==
    IF isUrlLong(u)
    THEN EmitF(acc, Weight(c, "longUrl"), Reason("Excessively long URL", "", 0),
               UrlFacts[u].length)
    ELSE acc

NonHttpsEvaluator(acc, c, u) ==
    IF isNonHttps(u)
    THEN EmitF(acc, Weight(c, "nonHttps"), Reason("Non-secure HTTP", "", 0), 100)
    ELSE acc

AtSymbolEvaluator(acc, c, u) ==
    IF containsAtSymbol(u)
    THEN EmitF(acc, Weight(c, "atSymbol"), Reason("URL contains @", "", 0), 100)
    ELSE acc

EncodedEvaluator(acc, c, u) ==
    IF hasEncodedChars(u)
    THEN EmitF(acc, Weight(c, "encodedChars"),
               Reason("Encoded characters in URL", "", 0), 100)
    ELSE acc

\* mutant: the pattern is tried on the URL only
PatternMatchesMutant(p, in, u) == p \in UrlFacts[u].contains

\* re.test(url) || (input.message && re.test(input.message))
PatternMatches(p, in, u) ==
    \/ p \in UrlFacts[u].contains
    \/ in.message # "" /\ p \in MessageFacts[in.message].contains

\* mutant: the try block is around the loop, which ends at the first pattern
\* that is not a regular expression
RECURSIVE CustomPatternLoopMutant(_, _, _, _, _)
CustomPatternLoopMutant(acc, c, in, u, patterns) ==
    IF patterns = <<>> \/ Head(patterns) \in InvalidPatterns THEN acc
    ELSE CustomPatternLoopMutant(
            IF PatternMatches(Head(patterns), in, u)
            THEN EmitF(acc, Weight(c, "shortener"),
                       Reason("Custom pattern matched", Head(patterns), 0), 100)
            ELSE acc,
            c, in, u, Tail(patterns))

\* customPatterns.forEach(p => { try { ... } catch (_) { logger.warn(...) } })
RECURSIVE CustomPatternLoop(_, _, _, _, _)
CustomPatternLoop(acc, c, in, u, patterns) ==
    IF patterns = <<>> THEN acc
    ELSE LET p == Head(patterns)
             next == IF p \notin InvalidPatterns /\ PatternMatches(p, in, u)
                     THEN EmitF(acc, Weight(c, "shortener"),
                                Reason("Custom pattern matched", p, 0), 100)
                     ELSE acc
         IN  CustomPatternLoop(next, c, in, u, Tail(patterns))

\* lines 89-169 when nothing throws: the evaluators in the order of the code,
\* each on the accumulators the one before it has left
SyncHeuristics(c, in, u, patterns) ==
    CustomPatternLoop(
     EncodedEvaluator(
      AtSymbolEvaluator(
       NonHttpsEvaluator(
        LongUrlEvaluator(
         KeywordEvaluator(
          TldEvaluator(
           IdnEvaluator(
            TypoEvaluator(
             ShortenerEvaluator(
              IpEvaluator(EmptyAcc, c, u),
              c, u), c, u), c, u), c, u), c, u), c, u), c, u), c, u), c, u),
     c, in, u, patterns)

\* a TypeError escapes the synchronous part: from domainSimilarity on a null
\* domain, else from hasSuspiciousTldOrDeepSubdomain on a null subdomain
SyncThrows(c, u) ==
    domainSimilarityThrows(u, c.legitDomains) \/ hasSuspiciousTldThrows(u)


-----------------------------------------------------------------------------
(* checkPhishing: asynchronous verifiers *)

ThreatIntel == {"safeBrowsing", "virusTotal", "phishTank"}
Verifiers == {"dns", "redirect"} \cup ThreatIntel

KeyName == [v \in ThreatIntel |->
              CASE v = "safeBrowsing" -> "SAFE_BROWSING_API_KEY"
                [] v = "virusTotal" -> "VIRUSTOTAL_API_KEY"
                [] v = "phishTank" -> "PHISHTANK_API_KEY"]

\* process.env[name] || ''
getApiKey(name) == IF name \in env THEN "key" ELSE ""

\* mutant: every lookup is launched, with an empty key if need be
LaunchedMutant == Verifiers

\* the tasks pushed to asyncTasks
Launched ==
    {"dns", "redirect"} \cup {v \in ThreatIntel : getApiKey(KeyName[v]) # ""}

\* what a verifier's external call produced: kind, and for VirusTotal the
\* number of engines reporting the URL malicious or suspicious
Outcome(kind, n) == [kind |-> kind, n |-> n]
NoOutcome == Outcome("none", 0)

\* dns.resolve: addresses, an empty list, or a rejection.
\* axios.head: the final URL is the same or another one, or a rejection
\* (transport error, status error, the 3000 ms timeout).
\* threat intel: a response that flags the URL or does not, or a rejection.
Outcomes(v) ==
    CASE v = "dns" -> {Outcome("addresses", 0), Outcome("empty", 0),
                       Outcome("error", 0)}
      [] v = "redirect" -> {Outcome("same", 0), Outcome("moved", 0),
                            Outcome("error", 0)}
      [] v = "virusTotal" -> {Outcome("error", 0)} \cup
                             {Outcome("stats", n) : n \in 0..MaxVtHits}
      [] OTHER -> {Outcome("clean", 0), Outcome("flagged", 0),
                   Outcome("error", 0)}

\* the call is given a timeout: only axios.head(url, { ..., timeout: 3000 })
HasTimeout(v) == v = "redirect"

\* .then(arr => ...).catch(() => ...) of dns.resolve
DnsCallback(acc, c, o) ==
    CASE o.kind = "empty" ->
            Emit(acc, Weight(c, "dnsFailure"), Reason("No DNS resolution", "", 0))
      [] o.kind = "error" ->
            EmitF(acc, Weight(c, "dnsFailure"),
                  Reason("DNS resolution failed", "", 0), 100)
      [] OTHER -> acc

\* mutant: the catch handler adds the penalty, as the DNS one does
RedirectCallbackMutant(acc, c, o) ==
    CASE o.kind = "moved" ->
            Emit(acc, Weight(c, "redirect"), Reason("URL redirects", "", 0))
      [] o.kind = "error" ->
            Emit(acc, Weight(c, "redirect"), Reason("Redirect check failed", "", 0))
      [] OTHER -> acc

\* .then(resp => ...).catch(() => {}) of axios.head
RedirectCallback(acc, c, o) ==
    IF o.kind = "moved"
    THEN Emit(acc, Weight(c, "redirect"), Reason("URL redirects", "", 0))
    ELSE acc

SafeBrowsingCallback(acc, c, o) ==
    IF o.kind = "flagged"
    THEN Emit(acc, Weight(c, "googleSafeBrowsing"),
              Reason("Flagged by Google Safe Browsing", "SOCIAL_ENGINEERING", 0))
    ELSE acc

\* riskScore += cfg.weights.virusTotal * (mal + susp)
VirusTotalCallback(acc, c, o) ==
    IF o.kind = "stats" /\ o.n > 0
    THEN Emit(acc, JsTimes(Weight(c, "virusTotal"), o.n),
              Reason("VirusTotal: malicious, suspicious", "", o.n))
    ELSE acc

PhishTankCallback(acc, c, o) ==
    IF o.kind = "flagged"
    THEN Emit(acc, Weight(c, "phishTank"),
              Reason("Confirmed phishing by PhishTank", "", 0))
    ELSE acc

Callback(v, acc, c, o) ==
    CASE v = "dns" -> DnsCallback(acc, c, o)
      [] v = "redirect" -> RedirectCallback(acc, c, o)
      [] v = "safeBrowsing" -> SafeBrowsingCallback(acc, c, o)
      [] v = "virusTotal" -> VirusTotalCallback(acc, c, o)
      [] v = "phishTank" -> PhishTankCallback(acc, c, o)

-----------------------------------------------------------------------------
(* checkPhishing: model, clamp, classification *)

MlMultiplier == 50
FallbackPhishingScore == 50

\* 100 / (1 + e^(-m/100)) at m = 0, 25, 50, ..., 200, rounded
SigmoidTable == <<50, 56, 62, 68, 73, 78, 82, 85, 88>>

Min(a, b) == IF a < b THEN a ELSE b
Max(a, b) == IF a > b THEN a ELSE b

\* 1 / (1 + Math.exp(-m)) for a mean m >= 0 in hundredths, as a percentage
Sigmoid(m) == SigmoidTable[Min(m \div 25, Len(SigmoidTable) - 1) + 1]

RECURSIVE SumSeq(_)
SumSeq(f) == IF f = <<>> THEN 0 ELSE Head(f) + SumSeq(Tail(f))

\* mutant: the mean of no feature is not defined, and the probability is 0
FallbackPredictMutant(f) ==
    IF Len(f) = 0 THEN 0 ELSE Sigmoid(SumSeq(f) \div Len(f))

\* the fallback model of loadModel: sigmoid(sum / (features.length || 1))
FallbackPredict(f) ==
    Sigmoid(SumSeq(f) \div (IF Len(f) = 0 THEN 1 ELSE Len(f)))

\* options.model: none, or a model answering a fixed probability
NoModel == [injected |-> FALSE, p |-> 0]
Models == {NoModel} \cup {[injected |-> TRUE, p |-> q] : q \in {0, 100}}

\* (injectedModel || await loadModel()).predict(features), a percentage
Predict(m, f) == IF m.injected THEN m.p ELSE FallbackPredict(f)

\* riskScore += mlProb * 50
AddMl(score, mlProb) == JsAdd(score, Num(mlProb * MlMultiplier))

\* Math.min(Math.max(riskScore, 0), 100): NaN stays NaN
Clamp(x) == IF x.nan THEN NaN ELSE Num(Min(Max(x.v, 0), 100 * 100))

\* cfg.thresholds.phishingScore || 50: undefined and 0 are falsy
Threshold(c) ==
    IF "phishingScore" \in DOMAIN c.thresholds /\ c.thresholds.phishingScore # 0
    THEN Points(c.thresholds.phishingScore)
    ELSE Points(FallbackPhishingScore)

\* riskScore > (cfg.thresholds.phishingScore || 50)
Classify(score, c) == JsGreater(score, Threshold(c))

Result(isPhishing, score, rs) ==
    [isPhishing |-> isPhishing, riskScore |-> score, reasons |-> rs]

NoResult == Result(FALSE, NaN, <<>>)
\* mutant: the early return is a copy of the invalid-URL one
NoUrlResultMutant == Result(TRUE, Points(100), <<Reason("No URL found", "", 0)>>)

NoUrlResult == Result(FALSE, Num(0), <<Reason("No URL found", "", 0)>>)
\* mutant: the verdict of the early return is computed from the threshold
InvalidUrlResultMutant ==
    Result(JsGreater(Points(100), Threshold(cfg')), Points(100),
           <<Reason("Invalid URL format", "", 0)>>)

InvalidUrlResult == Result(TRUE, Points(100), <<Reason("Invalid URL format", "", 0)>>)


-----------------------------------------------------------------------------
(* The state machine *)

NoInput == [url |-> "", message |-> ""]

Inputs ==
    {[url |-> u, message |-> ""] :
        u \in {PaypalTkUrl, ExampleUrl, IpUrl, NotAUrl, GoodEvilUrl, TypoUrl,
               ShortUrl, LocalhostUrl, LongUrl}}
    \cup {[url |-> "", message |-> m] : m \in {NoLinkMessage, UrgentMessage}}
    \cup {NoInput}

\* the arguments setCustomPatterns is called with
PatternArgs ==
    {[array |-> TRUE, items |-> <<>>],
     [array |-> TRUE, items |-> <<"(", "evil">>],
     [array |-> FALSE, items |-> <<>>]}

\* the credentials the process may be started with
Environments ==
    {e \in SUBSET {KeyName[v] : v \in ThreatIntel} :
        Cardinality(e) <= MaxCredentials}

\* the record of another call: its arguments (override: its options.config),
\* what it has computed so far, and mine, the options.config of this call
NoRun == [ran |-> FALSE, input |-> NoInput, cfg |-> Config, model |-> NoModel,
          patterns |-> <<>>, outcome |-> [v \in Verifiers |-> NoOutcome],
          result |-> NoResult, features |-> <<>>, pc |-> "idle",
          riskScore |-> Num(0), reasons |-> <<>>,
          asyncTasks |-> [v \in Verifiers |-> "none"],
          override |-> NoOverride, mine |-> NoOverride]

\* the state of the module once loaded, with credentials among environments
Loaded(environments) ==
    /\ pc = "idle"
    /\ input = NoInput
    /\ cfg = Config
    /\ injectedModel = NoModel
    /\ url = ""
    /\ riskScore = Num(0)
    /\ reasons = <<>>
    /\ features = <<>>
    /\ asyncTasks = [v \in Verifiers |-> "none"]
    /\ outcome = [v \in Verifiers |-> NoOutcome]
    /\ result = NoResult
    /\ evaluated = FALSE
    /\ mlConsulted = FALSE
    /\ customPatterns = <<>>
    /\ env \in environments
    /\ config = Config
    /\ first = NoRun

Init == Loaded(Environments)

\* let url = input.url || (input.message && extractFirstUrlFromMessage(...))
CandidateUrl(in) ==
    IF in.url # "" THEN in.url
    ELSE IF in.message # "" THEN extractFirstUrlFromMessage(in.message)
    ELSE ""

\* setCustomPatterns(patterns)
setCustomPatterns(arg) ==
    /\ customPatterns' = IF arg.array THEN arg.items ELSE customPatterns
    /\ UNCHANGED <<pc, input, cfg, injectedModel, url, riskScore, reasons, features,
                   asyncTasks, outcome, result, evaluated, mlConsulted, env, config, first>>

\* checkPhishing(input, options) up to its first await (lines 62-263): the
\* configuration merge, the two early returns, the synchronous evaluators and
\* the launch of the verifiers run without interruption.  The record of the
\* other run (first) is left to the specification that makes the call.
checkPhishing(in, userCfg, m) ==
    /\ pc = "idle"
    /\ input' = in
    /\ cfg' = MergeConfig(userCfg)
    /\ injectedModel' = m
    /\ url' = CandidateUrl(in)
    /\ LET u == CandidateUrl(in)
           c == MergeConfig(userCfg)
           acc == SyncHeuristics(c, in, u, customPatterns)
       IN  IF u = ""
           THEN /\ pc' = "done"
                /\ result' = NoUrlResult
                /\ UNCHANGED <<riskScore, reasons, features, asyncTasks, evaluated>>
           ELSE IF ~UrlFacts[u].parses
           THEN /\ pc' = "done"
                /\ result' = InvalidUrlResult
                /\ UNCHANGED <<riskScore, reasons, features, asyncTasks, evaluated>>
           ELSE IF SyncThrows(c, u)
           THEN /\ pc' = "thrown"
                /\ evaluated' = TRUE
                /\ UNCHANGED <<riskScore, reasons, features, asyncTasks, result>>
           ELSE /\ pc' = "awaiting"
                /\ evaluated' = TRUE
                /\ riskScore' = acc.score
                /\ reasons' = acc.reasons
                /\ features' = acc.features
                /\ asyncTasks' = [v \in Verifiers |->
                                IF v \in Launched THEN "pending" ELSE "none"]
                /\ UNCHANGED result
    /\ config' = ConfigAfterMerge(userCfg)
    /\ UNCHANGED <<outcome, mlConsulted, customPatterns, env>>

\* a verifier's external call ends with outcome o and its callback runs,
\* wherever the caller is; a call with a timeout whose service stays silent
\* ends with "error"
Settle(v, o) ==
    /\ asyncTasks[v] = "pending"
    /\ LET acc == Callback(v, [score |-> riskScore, reasons |-> reasons,
                               features |-> features], cfg, o)
       IN  /\ riskScore' = acc.score
           /\ reasons' = acc.reasons
           /\ features' = acc.features
    /\ asyncTasks' = [asyncTasks EXCEPT ![v] = "settled"]
    /\ outcome' = [outcome EXCEPT ![v] = o]
    /\ UNCHANGED <<pc, input, cfg, injectedModel, url, result, evaluated, mlConsulted,
                   customPatterns, env, config, first>>

\* the service of a call without a timeout never responds: the promise stays
\* pending for ever
NeverResponds(v) ==
    /\ asyncTasks[v] = "pending"
    /\ v \in ThreatIntel
    /\ ~HasTimeout(v)
    /\ asyncTasks' = [asyncTasks EXCEPT ![v] = "hung"]
    /\ UNCHANGED <<pc, input, cfg, injectedModel, url, riskScore, reasons, features,
                   outcome, result, evaluated, mlConsulted, customPatterns, env, config,
                   first>>

\* mutant: Promise.race in place of Promise.all
AllSettledMutant(st) == \E v \in Verifiers : st[v] = "settled"

\* Promise.all(asyncTasks) is fulfilled: every task has settled
AllSettled(st) == \A v \in Verifiers : st[v] \in {"none", "settled"}

\* await Promise.all(asyncTasks) resumes
Join ==
    /\ pc = "awaiting"
    /\ AllSettled(asyncTasks)
    /\ pc' = "joined"
    /\ UNCHANGED <<input, cfg, injectedModel, url, riskScore, reasons, features, asyncTasks,
                   outcome, result, evaluated, mlConsulted, customPatterns, env, config,
                   first>>

\* mutant: the custom patterns are evaluated after the join as well, on the
\* list installed by then
AggregateMutant ==
    /\ pc = "joined"
    /\ LET acc == CustomPatternLoop([score |-> riskScore, reasons |-> reasons,
                                     features |-> features],
                                    cfg, input, url, customPatterns)
           mlProb == Predict(injectedModel, acc.features)
           score == Clamp(AddMl(acc.score, mlProb))
       IN  /\ riskScore' = score
           /\ result' = Result(Classify(score, cfg), score, acc.reasons)
    /\ mlConsulted' = TRUE
    /\ pc' = "done"
    /\ UNCHANGED <<input, cfg, injectedModel, url, reasons, features, asyncTasks, outcome,
                   evaluated, customPatterns, env, config, first>>

\* lines 265-273: the model, the clamp, the classification, the return
Aggregate ==
    /\ pc = "joined"
    /\ LET mlProb == Predict(injectedModel, features)
           score == Clamp(AddMl(riskScore, mlProb))
       IN  /\ riskScore' = score
           /\ result' = Result(Classify(score, cfg), score, reasons)
    /\ mlConsulted' = TRUE
    /\ pc' = "done"
    /\ UNCHANGED <<input, cfg, injectedModel, url, reasons, features, asyncTasks, outcome,
                   evaluated, customPatterns, env, config, first>>

\* the call is over (returned or rejected); the next one may start
Reset ==
    /\ pc \in {"done", "thrown"}
    /\ pc' = "idle"
    /\ input' = NoInput
    /\ cfg' = Config
    /\ injectedModel' = NoModel
    /\ url' = ""
    /\ riskScore' = Num(0)
    /\ reasons' = <<>>
    /\ features' = <<>>
    /\ asyncTasks' = [v \in Verifiers |-> "none"]
    /\ outcome' = [v \in Verifiers |-> NoOutcome]
    /\ result' = NoResult
    /\ evaluated' = FALSE
    /\ mlConsulted' = FALSE
    /\ UNCHANGED <<customPatterns, env, config, first>>

Next ==
    \/ \E arg \in PatternArgs : setCustomPatterns(arg)
    \/ \E in \in Inputs, userCfg \in UserConfigs, m \in Models :
          checkPhishing(in, userCfg, m) /\ UNCHANGED first
    \/ \E v \in Verifiers : \E o \in Outcomes(v) : Settle(v, o)
    \/ \E v \in Verifiers : NeverResponds(v)
    \/ Join
    \/ Aggregate
    \/ Reset

Spec == Init /\ [][Next]_vars


-----------------------------------------------------------------------------
(* Liveness: a settled promise's callbacks are run, and a fulfilled await  *)
(* resumes (the event loop drops no job); a service that has not responded *)
(* yet does so, unless it never does (NeverResponds)                       *)

LiveSpec ==
    /\ Init
    /\ [][Next]_vars
    /\ \A v \in Verifiers : WF_vars(\E o \in Outcomes(v) : Settle(v, o))
    /\ WF_vars(Join)
    /\ WF_vars(Aggregate)

-----------------------------------------------------------------------------
(* Two runs of the same call: the first run is remembered when it returns, *)
(* and the second is made with the same input, model and pattern list, and *)
(* with the same configuration or with an override of the threshold        *)

ReplayInputs ==
    {[url |-> u, message |-> ""] : u \in {PaypalTkUrl, ExampleUrl}}

ReplayModels == {NoModel, [injected |-> TRUE, p |-> 100]}

ReplayEnvironments ==
    {e \in SUBSET {KeyName[v] : v \in ThreatIntel} : Cardinality(e) <= 1}

ReplayInit == Loaded(ReplayEnvironments)

FirstCall ==
    /\ ~first.ran
    /\ \E in \in ReplayInputs, userCfg \in UserConfigs, m \in ReplayModels :
          checkPhishing(in, userCfg, m) /\ UNCHANGED first

Remember ==
    /\ pc = "done"
    /\ ~first.ran
    /\ first' = [NoRun EXCEPT !.ran = TRUE, !.input = input, !.cfg = cfg,
                               !.model = injectedModel,
                               !.patterns = customPatterns, !.outcome = outcome,
                               !.result = result, !.features = features]
    /\ pc' = "idle"
    /\ input' = NoInput
    /\ cfg' = Config
    /\ injectedModel' = NoModel
    /\ url' = ""
    /\ riskScore' = Num(0)
    /\ reasons' = <<>>
    /\ features' = <<>>
    /\ asyncTasks' = [v \in Verifiers |-> "none"]
    /\ outcome' = [v \in Verifiers |-> NoOutcome]
    /\ result' = NoResult
    /\ evaluated' = FALSE
    /\ mlConsulted' = FALSE
    /\ UNCHANGED <<customPatterns, env, config>>

\* the merged configuration merges to itself: MergeConfig(cfg) = cfg
SecondCall ==
    /\ first.ran
    /\ \E in \in {first.input}, userCfg \in {first.cfg}, m \in {first.model} :
          checkPhishing(in, userCfg, m) /\ UNCHANGED first

\* the overrides of thresholds.phishingScore alone
ThresholdOverrides == {u \in UserConfigs : DOMAIN u = {"thresholds"}}

\* the call of the first run, which had no override, made again with an
\* override of the threshold
OverrideCall ==
    /\ first.ran
    /\ first.cfg = Config
    /\ \E in \in {first.input}, userCfg \in ThresholdOverrides, m \in {first.model} :
          checkPhishing(in, userCfg, m) /\ UNCHANGED first

ReplayNext ==
    \/ FirstCall
    \/ \E v \in Verifiers : \E o \in Outcomes(v) : Settle(v, o)
    \/ Join
    \/ Aggregate
    \/ Remember
    \/ SecondCall
    \/ OverrideCall

ReplaySpec == ReplayInit /\ [][ReplayNext]_vars


-----------------------------------------------------------------------------
(* Calls under a changing pattern list: setCustomPatterns may be called at  *)
(* any moment, by the moderation module or on behalf of another analysis,  *)
(* and each call remembers the list that was installed when it started     *)

\* the lists setCustomPatterns installs: none, one pattern, and a pattern
\* twice with one that is not a regular expression in between
PatternLists == {<<>>, <<"evil">>, <<"evil", "(", "evil">>}

PatternListArgs ==
    {[array |-> TRUE, items |-> l] : l \in PatternLists}
    \cup {[array |-> FALSE, items |-> <<>>]}

\* the overrides that bear on the contributions: all but the thresholds
PatternConfigs == {u \in UserConfigs : "thresholds" \notin DOMAIN u}

\* a call without an injected model, and the list in effect when it starts
TrackedCall ==
    /\ \E in \in Inputs, userCfg \in PatternConfigs :
          checkPhishing(in, userCfg, NoModel)
    /\ first' = [NoRun EXCEPT !.ran = TRUE, !.patterns = customPatterns]

PatternNext ==
    \/ \E arg \in PatternListArgs : setCustomPatterns(arg)
    \/ TrackedCall
    \/ \E v \in Verifiers : \E o \in Outcomes(v) : Settle(v, o)
    \/ Join
    \/ Aggregate
    \/ Reset

PatternSpec == Init /\ [][PatternNext]_vars


-----------------------------------------------------------------------------
(* Two calls in flight at once: while this call waits for its verifiers,   *)
(* another checkPhishing call runs, with its own arguments and its own     *)
(* cfg, riskScore, reasons and features; the two share the module's        *)
(* config and customPatterns and the process environment.  The other call  *)
(* is kept in the record first.                                            *)

ConcurrentInputs ==
    {[url |-> u, message |-> ""] : u \in {PaypalTkUrl, NotAUrl}}

ConcurrentConfigs ==
    {u \in UserConfigs : DOMAIN u = {} \/ (\E k \in DOMAIN u : u[k] \in
        {[phishingScore |-> 100], [keyword |-> 5, nonHttps |-> 25]})}

\* this call, which notes its options.config
OwnCall ==
    \E in \in ConcurrentInputs, userCfg \in ConcurrentConfigs :
        /\ checkPhishing(in, userCfg, NoModel)
        /\ first' = [first EXCEPT !.mine = userCfg]

\* the other call up to its first await (lines 62-263), on its own locals
OtherStart(in, userCfg) ==
    LET u == CandidateUrl(in)
        c == MergeConfig(userCfg)
        acc == SyncHeuristics(c, in, u, customPatterns)
        called == [first EXCEPT !.ran = TRUE, !.input = in, !.cfg = c,
                                !.override = userCfg, !.patterns = customPatterns]
    IN  IF u = ""
        THEN [called EXCEPT !.pc = "done", !.result = NoUrlResult]
        ELSE IF ~UrlFacts[u].parses
        THEN [called EXCEPT !.pc = "done", !.result = InvalidUrlResult]
        ELSE IF SyncThrows(c, u)
        THEN [called EXCEPT !.pc = "thrown"]
        ELSE [called EXCEPT !.pc = "awaiting", !.riskScore = acc.score,
                            !.reasons = acc.reasons, !.features = acc.features,
                            !.asyncTasks = [v \in Verifiers |->
                                IF v \in Launched THEN "pending" ELSE "none"]]

OtherCall(in, userCfg) ==
    /\ first.pc = "idle"
    /\ first' = OtherStart(in, userCfg)
    /\ config' = ConfigAfterMerge(userCfg)
    /\ UNCHANGED <<pc, input, cfg, injectedModel, url, riskScore, reasons, features,
                   asyncTasks, outcome, result, evaluated, mlConsulted,
                   customPatterns, env>>

\* a verifier of the other call ends and its callback runs
OtherSettle(v, o) ==
    /\ first.asyncTasks[v] = "pending"
    /\ LET acc == Callback(v, [score |-> first.riskScore, reasons |-> first.reasons,
                               features |-> first.features], first.cfg, o)
       IN  first' = [first EXCEPT !.riskScore = acc.score, !.reasons = acc.reasons,
                                  !.features = acc.features,
                                  !.asyncTasks[v] = "settled", !.outcome[v] = o]
    /\ UNCHANGED <<pc, input, cfg, injectedModel, url, riskScore, reasons, features,
                   asyncTasks, outcome, result, evaluated, mlConsulted,
                   customPatterns, env, config>>

\* await Promise.all(asyncTasks) of the other call resumes
OtherJoin ==
    /\ first.pc = "awaiting"
    /\ AllSettled(first.asyncTasks)
    /\ first' = [first EXCEPT !.pc = "joined"]
    /\ UNCHANGED <<pc, input, cfg, injectedModel, url, riskScore, reasons, features,
                   asyncTasks, outcome, result, evaluated, mlConsulted,
                   customPatterns, env, config>>

\* lines 265-273 of the other call
OtherAggregate ==
    /\ first.pc = "joined"
    /\ LET mlProb == Predict(first.model, first.features)
           score == Clamp(AddMl(first.riskScore, mlProb))
       IN  first' = [first EXCEPT !.pc = "done", !.riskScore = score,
                        !.result = Result(Classify(score, first.cfg), score,
                                          first.reasons)]
    /\ UNCHANGED <<pc, input, cfg, injectedModel, url, riskScore, reasons, features,
                   asyncTasks, outcome, result, evaluated, mlConsulted,
                   customPatterns, env, config>>

ConcurrentNext ==
    \/ OwnCall
    \/ \E v \in Verifiers : \E o \in Outcomes(v) : Settle(v, o)
    \/ Join
    \/ Aggregate
    \/ Reset
    \/ \E in \in ConcurrentInputs, userCfg \in ConcurrentConfigs : OtherCall(in, userCfg)
    \/ \E v \in Verifiers : \E o \in Outcomes(v) : OtherSettle(v, o)
    \/ OtherJoin
    \/ OtherAggregate

\* the process has no credential or the Safe Browsing one
ConcurrentInit == Loaded({{}, {"SAFE_BROWSING_API_KEY"}})

ConcurrentSpec == ConcurrentInit /\ [][ConcurrentNext]_vars


-----------------------------------------------------------------------------
(* Claims *)

\* the suspicious-TLD reason is in a reasons sequence
HasTldReason(rs) ==
    \E i \in 1..Len(rs) : rs[i].text = "Suspicious TLD or deep subdomain"

\* the verifiers that are still waiting for their external call
Unsettled(st) == {v \in Verifiers : st[v] \in {"pending", "hung"}}

\* C1: the riskScore that checkPhishing returns is a number between 0 and
\* 100, whatever the input, the configuration override, the verifier outcomes
\* and the model probability.
C1_ScoreInRange ==
    pc = "done" =>
        /\ ~result.riskScore.nan
        /\ 0 <= result.riskScore.v
        /\ result.riskScore.v <= 100 * 100

\* C2: a full analysis returns isPhishing = (riskScore > T), where T is the
\* caller's thresholds.phishingScore whenever it is given (0 included) and 50
\* otherwise.
C2_ThresholdOverride ==
    pc = "done" /\ mlConsulted =>
        LET T == IF "phishingScore" \in DOMAIN cfg.thresholds
                 THEN cfg.thresholds.phishingScore
                 ELSE 50
        IN  result.isPhishing =
                (~result.riskScore.nan /\ result.riskScore.v > T * 100)

\* C4: the model is consulted, the score clamped and the result returned only
\* when no launched verifier is still waiting, and once the result is returned
\* no step changes riskScore, reasons, features or the result.
C4_JoinAll ==
    [][ /\ (pc' \in {"joined", "done"} \/ mlConsulted') => Unsettled(asyncTasks') = {}
        /\ (pc = "done" /\ pc' = "done") =>
              UNCHANGED <<riskScore, reasons, features, result>> ]_vars

\* C4 witness: a result returned after three verifiers have settled
C4_Witness ==
    /\ pc = "done"
    /\ mlConsulted
    /\ Cardinality({v \in Verifiers : asyncTasks[v] = "settled"}) = 3
    /\ Len(result.reasons) >= 3

\* C5: checkPhishing never throws or rejects to its caller.
C5_NeverThrows == pc # "thrown"

\* C8: when no URL can be derived from the input, the result is exactly
\* {isPhishing: false, riskScore: 0, reasons: ['No URL found']}, no evaluator
\* has run, no verifier is launched and the model is not consulted.
C8_NoUrl ==
    ( /\ pc = "done"
      /\ input.url = ""
      /\ input.message = "" \/ MessageFacts[input.message].urls = <<>> ) =>
        /\ result = [isPhishing |-> FALSE, riskScore |-> Num(0),
                     reasons |-> <<Reason("No URL found", "", 0)>>]
        /\ ~evaluated
        /\ ~mlConsulted
        /\ \A v \in Verifiers : asyncTasks[v] = "none"

\* C8 witness: a message without a link has been analysed
C8_Witness ==
    /\ pc = "done"
    /\ input.message = NoLinkMessage
    /\ Len(result.reasons) = 1

\* C9: when the candidate URL does not parse, the result is exactly
\* {isPhishing: true, riskScore: 100, reasons: ['Invalid URL format']} whatever
\* the threshold, no evaluator has run, no verifier is launched and the model
\* is not consulted.
C9_InvalidUrl ==
    (pc = "done" /\ url # "" /\ ~UrlFacts[url].parses) =>
        /\ result = [isPhishing |-> TRUE, riskScore |-> Num(100 * 100),
                     reasons |-> <<Reason("Invalid URL format", "", 0)>>]
        /\ ~evaluated
        /\ ~mlConsulted
        /\ \A v \in Verifiers : asyncTasks[v] = "none"

\* C9 witness: an unparsable URL analysed under a threshold of 100
C9_Witness ==
    /\ pc = "done"
    /\ url = NotAUrl
    /\ cfg.thresholds.phishingScore = 100
    /\ result.isPhishing

\* C10: with the default configuration (no override, no injected model), a
\* URL for which the suspicious-TLD, keyword and non-HTTPS evaluators fire is
\* classified as phishing and its reasons include the suspicious-TLD reason,
\* whatever the verifiers' outcomes and completion order.
C10_ObviousPhishing ==
    ( /\ pc = "done"
      /\ mlConsulted
      /\ cfg = Config
      /\ ~injectedModel.injected
      /\ Includes(SuspiciousTLDs, UrlFacts[url].labels[Len(UrlFacts[url].labels)])
      /\ \E i \in 1..Len(PhishingKeywords) :
            PhishingKeywords[i] \in UrlFacts[url].pathQuery
      /\ UrlFacts[url].protocol # "https:" ) =>
        /\ result.isPhishing
        /\ HasTldReason(result.reasons)

\* C10 witness: http://paypal.com.example.tk/login with no verifier
\* contributing
C10_Witness ==
    /\ pc = "done"
    /\ url = PaypalTkUrl
    /\ cfg = Config
    /\ ~injectedModel.injected
    /\ Len(result.reasons) = 3
    /\ result.isPhishing


\* the elements of a sequence with their numbers of occurrences
BagOf(seq) ==
    [x \in {seq[i] : i \in 1..Len(seq)} |->
        Cardinality({i \in 1..Len(seq) : seq[i] = x})]

\* the second run is over, on the first run's input, configuration, model and
\* pattern list
Replayed ==
    /\ pc = "done"
    /\ first.ran
    /\ input = first.input
    /\ cfg = first.cfg
    /\ injectedModel = first.model
    /\ customPatterns = first.patterns

\* C3: with the verifiers' outcomes and the model fixed, two runs on the same
\* input and configuration return the same reasons sequence and the same
\* riskScore, whatever order the verifiers complete in.
C3_Deterministic ==
    (Replayed /\ outcome = first.outcome) =>
        /\ result.reasons = first.result.reasons
        /\ result.riskScore = first.result.riskScore

\* the outcomes with every failure of the redirect check or of a threat-intel
\* lookup replaced by that verifier's answer that flags nothing
Unflagged(v) ==
    CASE v = "redirect" -> Outcome("same", 0)
      [] v = "virusTotal" -> Outcome("stats", 0)
      [] OTHER -> Outcome("clean", 0)

Absorbed(out) ==
    [v \in Verifiers |->
        IF v # "dns" /\ out[v].kind = "error" THEN Unflagged(v) ELSE out[v]]

\* C6: a run in which the redirect check or a threat-intel lookup fails gives
\* the result of the run in which that verifier completed without flagging
\* anything: the same riskScore and verdict, the same reasons and the same
\* features (as multisets: their order is the order of completion).
C6_FailureAbsorbed ==
    (Replayed /\ Absorbed(outcome) = Absorbed(first.outcome)) =>
        /\ result.riskScore = first.result.riskScore
        /\ result.isPhishing = first.result.isPhishing
        /\ BagOf(result.reasons) = BagOf(first.result.reasons)
        /\ BagOf(features) = BagOf(first.features)

\* C6 witness: the redirect check and the Safe Browsing lookup fail in the
\* second run and flag nothing in the first, and DNS contributes in both
C6_Witness ==
    /\ Replayed
    /\ Absorbed(outcome) = Absorbed(first.outcome)
    /\ outcome["redirect"].kind = "error"
    /\ first.outcome["redirect"].kind = "same"
    /\ outcome["safeBrowsing"].kind = "error"
    /\ first.outcome["safeBrowsing"].kind = "clean"
    /\ outcome["dns"].kind = "error"
    /\ Len(result.reasons) >= 4

\* C7: every analysis that has launched its verifiers eventually returns a
\* result, even when an external service never responds.
C7_EventuallyReturns == (pc = "awaiting") ~> (pc = "done")

-----------------------------------------------------------------------------
(* Claims about the contributions of one call *)

\* no synchronous evaluator fires on URL u of input in under the default
\* configuration and the pattern list patterns
NoEvaluatorFires(in, u, patterns) ==
    LET f == UrlFacts[u]
    IN  /\ ~f.ipSyntax
        /\ ~Includes(UrlShorteners, f.domain)
        /\ \A i \in 1..Len(LegitDomains) :
              ~(compareTwoStrings(f.domain, LegitDomains[i]) > 70
                  /\ f.domain # LegitDomains[i])
        /\ Len(f.subdomain) <= 2
        /\ ~Includes(SuspiciousTLDs, f.labels[Len(f.labels)])
        /\ \A i \in 1..Len(PhishingKeywords) : PhishingKeywords[i] \notin f.pathQuery
        /\ f.length <= 100
        /\ f.protocol = "https:"
        /\ "@" \notin f.contains
        /\ ~f.encoded
        /\ \A i \in 1..Len(patterns) :
              \/ patterns[i] \in InvalidPatterns
              \/ /\ patterns[i] \notin f.contains
                 /\ in.message = "" \/ patterns[i] \notin MessageFacts[in.message].contains

\* no verifier has anything to add: the host resolves, the URL does not
\* redirect, and no threat-intel service flags it
NoVerifierContributes(out) ==
    /\ out["dns"].kind = "addresses"
    /\ out["redirect"].kind # "moved"
    /\ out["safeBrowsing"].kind # "flagged"
    /\ out["phishTank"].kind # "flagged"
    /\ ~(out["virusTotal"].kind = "stats" /\ out["virusTotal"].n > 0)

\* C11: with the default configuration and the fallback model, an https URL
\* for which no evaluator fires and no verifier contributes has an empty
\* feature vector, riskScore 50 x 0.5 = 25, no reason, and is not phishing.
C11_CleanUrl ==
    ( /\ pc = "done"
      /\ mlConsulted
      /\ cfg = Config
      /\ ~injectedModel.injected
      /\ NoEvaluatorFires(input, url, first.patterns)
      /\ NoVerifierContributes(outcome) ) =>
        /\ features = <<>>
        /\ result = [isPhishing |-> FALSE, riskScore |-> Num(25 * 100),
                     reasons |-> <<>>]

\* C11 witness: https://example.com analysed, the host resolving and the HEAD
\* request answered without a redirect
C11_Witness ==
    /\ pc = "done"
    /\ input.url = ExampleUrl
    /\ cfg = Config
    /\ outcome["dns"].kind = "addresses"
    /\ outcome["redirect"].kind = "same"
    /\ result.riskScore = Num(25 * 100)
    /\ ~result.isPhishing

\* the patterns of a list that are regular expressions and match the URL or
\* the message of the input, in the order of the list
MatchingPatterns(patterns, in, u) ==
    SelectSeq(patterns,
              LAMBDA p : /\ p \notin InvalidPatterns
                         /\ \/ p \in UrlFacts[u].contains
                            \/ /\ in.message # ""
                               /\ p \in MessageFacts[in.message].contains)

IsCustomReason(r) == r.text = "Custom pattern matched"

\* C12: a call adds, for every pattern of the installed list that matches the
\* URL or the message, one 'Custom pattern' reason, one weight and one feature
\* value 1 to what the other evaluators give; and with the default
\* configuration, the list ['evil'] and https://good.com/evil, no verifier
\* contributing, the result has a custom-pattern reason and isPhishing = true.
C12_CustomPatterns ==
    [][ /\ (pc = "idle" /\ pc' = "awaiting") =>
              LET hits == MatchingPatterns(customPatterns, input', url')
                  base == SyncHeuristics(cfg', input', url', <<>>)
                  w == Weight(cfg', "shortener")
              IN  /\ reasons' = base.reasons \o
                         [j \in 1..Len(hits) |->
                             Reason("Custom pattern matched", hits[j], 0)]
                  /\ features' = base.features \o [j \in 1..Len(hits) |-> 100]
                  /\ riskScore' = IF Len(hits) = 0 THEN base.score
                                  ELSE JsAdd(base.score, JsTimes(w, Len(hits)))
        /\ ( /\ pc' = "done"
             /\ mlConsulted'
             /\ cfg' = Config
             /\ first'.patterns = <<"evil">>
             /\ input' = [url |-> GoodEvilUrl, message |-> ""]
             /\ NoVerifierContributes(outcome') ) =>
              /\ result'.isPhishing
              /\ \E i \in 1..Len(result'.reasons) :
                    IsCustomReason(result'.reasons[i]) ]_vars

\* C12 witness: https://good.com/evil analysed under the list ['evil'], the
\* custom pattern being the only contribution
C12_Witness ==
    /\ pc = "done"
    /\ mlConsulted
    /\ cfg = Config
    /\ first.patterns = <<"evil">>
    /\ input.url = GoodEvilUrl
    /\ result.reasons = <<Reason("Custom pattern matched", "evil", 0)>>
    /\ features = <<100>>
    /\ result.isPhishing

\* the verifier a reason comes from, "" for the reason of an evaluator
VerifierOf(r) ==
    CASE r.text \in {"No DNS resolution", "DNS resolution failed"} -> "dns"
      [] r.text = "URL redirects" -> "redirect"
      [] r.text = "Flagged by Google Safe Browsing" -> "safeBrowsing"
      [] r.text = "VirusTotal: malicious, suspicious" -> "virusTotal"
      [] r.text = "Confirmed phishing by PhishTank" -> "phishTank"
      [] OTHER -> ""

\* the order in which the contributing verifiers have completed
CompletionOrder(rs) ==
    LET vs == SelectSeq(rs, LAMBDA r : VerifierOf(r) # "")
    IN  [i \in 1..Len(vs) |-> VerifierOf(vs[i])]

\* the second run is over: the first run's call with no override, made again
\* with another threshold, the verifiers answering and completing as before
OverrideReplayed ==
    /\ pc = "done"
    /\ first.ran
    /\ first.cfg = Config
    /\ cfg.thresholds # Config.thresholds
    /\ input = first.input
    /\ injectedModel = first.model
    /\ customPatterns = first.patterns
    /\ outcome = first.outcome
    /\ CompletionOrder(result.reasons) = CompletionOrder(first.result.reasons)

\* C13: a call whose only configuration override is thresholds.phishingScore
\* returns the riskScore and the reasons of the call with no override, for
\* the same input, model and verifier outcomes.
C13_ThresholdOnly ==
    OverrideReplayed =>
        /\ result.riskScore = first.result.riskScore
        /\ result.reasons = first.result.reasons

\* C13 witness: the paypal call flagged without override, made again under a
\* threshold of 100: the same score and reasons (two of them from verifiers),
\* another verdict
C13_Witness ==
    /\ OverrideReplayed
    /\ url = PaypalTkUrl
    /\ cfg.thresholds.phishingScore = 100
    /\ Len(CompletionOrder(result.reasons)) = 2
    /\ first.result.isPhishing
    /\ ~result.isPhishing

\* the reasons that come from custom patterns
CustomReasons(rs) == SelectSeq(rs, IsCustomReason)

\* C14: the custom patterns an analysis evaluates are those of the list
\* installed when the call started: a setCustomPatterns call made while the
\* analysis is in flight changes nothing of the analysis, and the result holds
\* the custom-pattern reasons of the starting list.
C14_PatternSnapshot ==
    [][ /\ customPatterns' # customPatterns =>
              UNCHANGED <<pc, input, cfg, injectedModel, url, riskScore, reasons,
                          features, asyncTasks, outcome, result>>
        /\ (pc' = "done" /\ mlConsulted') =>
              LET hits == MatchingPatterns(first'.patterns, input', url')
              IN  CustomReasons(result'.reasons) =
                      [j \in 1..Len(hits) |->
                          Reason("Custom pattern matched", hits[j], 0)] ]_vars

\* C14 witness: the list ['evil'] has been emptied while the analysis of
\* https://good.com/evil, which it matched, waits for a verifier
C14_Witness ==
    /\ pc = "awaiting"
    /\ \E v \in Verifiers : asyncTasks[v] = "settled"
    /\ \E v \in Verifiers : asyncTasks[v] = "pending"
    /\ url = GoodEvilUrl
    /\ first.patterns = <<"evil">>
    /\ customPatterns = <<>>
    /\ CustomReasons(reasons) = <<Reason("Custom pattern matched", "evil", 0)>>

\* a list without its patterns that are not regular expressions
ValidPatterns(patterns) == SelectSeq(patterns, LAMBDA p : p \notin InvalidPatterns)

\* C15: a custom pattern that is not a valid regular expression adds nothing
\* and stops nothing: the call does not fail because of it, its synchronous
\* part gives what it gives under the list without that pattern (the other
\* patterns are evaluated), and every verifier is launched.
C15_InvalidPatternSkipped ==
    [][ ( /\ pc = "idle"
          /\ pc' \in {"awaiting", "thrown"}
          /\ ValidPatterns(customPatterns) # customPatterns ) =>
            /\ pc' = "thrown" => UrlFacts[url'].tldNull
            /\ pc' = "awaiting" =>
                  LET acc == SyncHeuristics(cfg', input', url',
                                            ValidPatterns(customPatterns))
                  IN  /\ riskScore' = acc.score
                      /\ reasons' = acc.reasons
                      /\ features' = acc.features
                      /\ \A i \in 1..Len(reasons') :
                            reasons'[i].arg \notin InvalidPatterns
                      /\ asyncTasks'["dns"] = "pending"
                      /\ asyncTasks'["redirect"] = "pending"
                      /\ \A v \in ThreatIntel :
                            KeyName[v] \in env => asyncTasks'[v] = "pending" ]_vars

\* C15 witness: https://good.com/evil analysed to its end under the list
\* ['evil', '(', 'evil']: both valid patterns have matched
C15_Witness ==
    /\ pc = "done"
    /\ mlConsulted
    /\ first.patterns = <<"evil", "(", "evil">>
    /\ url = GoodEvilUrl
    /\ Len(CustomReasons(result.reasons)) = 2
    /\ asyncTasks["dns"] = "settled"
    /\ asyncTasks["redirect"] = "settled"

\* the host did not resolve: the lookup failed or gave no address
DnsUnresolved(o) == o.kind \in {"empty", "error"}

\* C16: the DNS verifier contributes one fixed penalty when the host does not
\* resolve: two runs that differ only in the lookup failing in one and giving
\* an empty list in the other return the same score, reasons and features; and
\* a lookup that gives an address contributes no reason.
C16_DnsPenalty ==
    /\ ( /\ Replayed
         /\ DnsUnresolved(outcome["dns"])
         /\ DnsUnresolved(first.outcome["dns"])
         /\ \A v \in Verifiers \ {"dns"} : outcome[v] = first.outcome[v] ) =>
            /\ result.riskScore = first.result.riskScore
            /\ BagOf(result.reasons) = BagOf(first.result.reasons)
            /\ BagOf(features) = BagOf(first.features)
    /\ (pc = "done" /\ mlConsulted /\ outcome["dns"].kind = "addresses") =>
            \A i \in 1..Len(result.reasons) : VerifierOf(result.reasons[i]) # "dns"

\* the defaults with the caller's overrides, the weight table and the
\* thresholds being combined entry by entry
EntryMerge(userCfg) ==
    [k \in DOMAIN Config |->
        IF k \notin DOMAIN userCfg THEN Config[k]
        ELSE IF k \in {"weights", "thresholds"}
        THEN [e \in DOMAIN Config[k] |->
                IF e \in DOMAIN userCfg[k] THEN userCfg[k][e] ELSE Config[k][e]]
        ELSE userCfg[k]]

\* C17: the configuration an analysis uses is the defaults with the caller's
\* overrides: every setting the caller does not give keeps its default value,
\* each entry of the weight table included.
C17_EntryMerge ==
    pc # "idle" => cfg \in {EntryMerge(userCfg) : userCfg \in UserConfigs}

\* C18: a threat-intel lookup is launched in an analysis if and only if its
\* credential is set; the DNS and redirect verifiers always are, so that with
\* no credential exactly those two are launched; and nothing is launched
\* after the call step.
C18_CredentialGated ==
    [][ /\ (pc = "idle" /\ pc' = "awaiting") =>
              \A v \in Verifiers :
                  asyncTasks'[v] = "pending" <=>
                      \/ v \in {"dns", "redirect"}
                      \/ v \in ThreatIntel /\ KeyName[v] \in env
        /\ \A v \in Verifiers :
              (asyncTasks[v] = "none" /\ asyncTasks'[v] # "none") => pc = "idle" ]_vars

\* C18 witness: with the VirusTotal key alone, the analysis waits for DNS,
\* the redirect check and VirusTotal, and for no other lookup
C18_Witness ==
    /\ pc = "awaiting"
    /\ env = {"VIRUSTOTAL_API_KEY"}
    /\ {v \in Verifiers : asyncTasks[v] = "pending"} = {"dns", "redirect", "virusTotal"}
    /\ {v \in Verifiers : asyncTasks[v] = "none"} = {"safeBrowsing", "phishTank"}

\* the place of a reason's evaluator in the evaluator table; the verifiers
\* come after the table
Rank(r) ==
    CASE r.text = "URL uses IP address (potential obfuscation)" -> 1
      [] r.text = "URL shortener detected (often hides phishing)" -> 2
      [] r.text = "Domain similar to" -> 3
      [] r.text \in {"Internationalized Domain Name (IDN) detected",
                     "Punycode similarity to"} -> 4
      [] r.text = "Suspicious TLD or deep subdomain" -> 5
      [] r.text = "Phishing keyword in URL" -> 6
      [] r.text = "Excessively long URL" -> 7
      [] r.text = "Non-secure HTTP" -> 8
      [] r.text = "URL contains @" -> 9
      [] r.text = "Encoded characters in URL" -> 10
      [] r.text = "Custom pattern matched" -> 11
      [] OTHER -> 12

One(b) == IF b THEN 1 ELSE 0

\* the number of contributions of the synchronous evaluators
SyncContributions(c, in, u, patterns) ==
    LET idn == isIdnHomograph(u, c.legitDomains)
    IN  One(isIpAddress(u))
        + One(Includes(c.urlShorteners, getDomain(u)))
        + One(domainSimilarity(u, c.legitDomains) # 0)
        + One(idn.idn) + One(idn.idn /\ idn.match # 0)
        + One(hasSuspiciousTldOrDeepSubdomain(u, c.suspiciousTLDs))
        + Len(containsPhishingKeyword(u, c.phishingKeywords))
        + One(isUrlLong(u)) + One(isNonHttps(u)) + One(containsAtSymbol(u))
        + One(hasEncodedChars(u))
        + Len(MatchingPatterns(patterns, in, u))

\* the verifier has something to add on this outcome
Contributes(v, o) ==
    CASE v = "dns" -> DnsUnresolved(o)
      [] v = "redirect" -> o.kind = "moved"
      [] v = "virusTotal" -> o.kind = "stats" /\ o.n > 0
      [] OTHER -> o.kind = "flagged"

IsPrefix(s, t) == Len(s) <= Len(t) /\ SubSeq(t, 1, Len(s)) = s

\* C19: in every result of a full analysis the reasons of the evaluators are
\* in the order of the evaluator table and before every verifier reason, and
\* there is one reason per contribution: as many evaluator reasons as there
\* are evaluator contributions, one reason for each verifier that contributes;
\* a reason once pushed keeps its place.
C19_ReasonsOrder ==
    [][ /\ (pc = "joined" /\ pc' = "done") =>
              LET rs == result'.reasons
              IN  /\ \A i, j \in 1..Len(rs) : i < j => Rank(rs[i]) <= Rank(rs[j])
                  /\ Cardinality({i \in 1..Len(rs) : Rank(rs[i]) < 12}) =
                        SyncContributions(cfg', input', url', first'.patterns)
                  /\ \A v \in Verifiers :
                        Cardinality({i \in 1..Len(rs) : VerifierOf(rs[i]) = v}) =
                            One(Contributes(v, outcome'[v]))
        /\ (pc \in {"awaiting", "joined"}) => IsPrefix(reasons, reasons')
        /\ (pc = "joined" /\ pc' = "done") => result'.reasons = reasons ]_vars

\* C19 witness: https://good.com/evil under the list ['evil', '(', 'evil']
\* with two verifiers contributing: the custom reason twice, then the two
\* verifier reasons
C19_Witness ==
    /\ pc = "done"
    /\ mlConsulted
    /\ url = GoodEvilUrl
    /\ Len(result.reasons) = 4
    /\ result.reasons[1] = result.reasons[2]
    /\ IsCustomReason(result.reasons[1])
    /\ Rank(result.reasons[3]) = 12
    /\ Rank(result.reasons[4]) = 12

\* the message of the input contains an urgency phrase
IsUrgent(in) ==
    /\ in.message # ""
    /\ in.url = ""
    /\ \E w \in UrgencyWords : w \in MessageFacts[in.message].contains

\* C20: the result of a full analysis holds an urgency reason exactly when
\* the input is a message that contains an urgency phrase; a url-only input
\* never gets one.
C20_Urgency ==
    (pc = "done" /\ mlConsulted) =>
        ( IsUrgent(input) <=>
            \E i \in 1..Len(result.reasons) :
                result.reasons[i].text = "Urgency keyword in message" )

\* the default configuration as the module defines it, with the settings of
\* one override in place of the defaults of the same name
OwnConfig(userCfg) ==
    [k \in DOMAIN Config |->
        IF k \in DOMAIN userCfg THEN userCfg[k] ELSE Config[k]]

\* C21: checkPhishing never writes to the shared default configuration, and
\* the configuration a call sees is made of the defaults and of its own
\* overrides only, whatever the overrides of the calls made before it or in
\* flight at the same time.
C21_DefaultUntouched ==
    /\ config = Config
    /\ pc # "idle" => cfg = OwnConfig(first.mine)
    /\ first.pc # "idle" => first.cfg = OwnConfig(first.override)

\* C21 witness: two calls wait for their verifiers at once, one under an
\* override of the threshold and the other under an override of the weights
C21_Witness ==
    /\ pc = "awaiting"
    /\ first.pc = "awaiting"
    /\ first.mine = [thresholds |-> [phishingScore |-> 100]]
    /\ first.override = [weights |-> [keyword |-> 5, nonHttps |-> 25]]
    /\ cfg.weights = Weights
    /\ first.cfg.thresholds = [phishingScore |-> DefaultPhishingScore]
    /\ \E v \in Verifiers : asyncTasks[v] = "settled"
    /\ \E v \in Verifiers : first.asyncTasks[v] = "settled"


\* n times the weight w, nothing when the contribution is not made
Term(n, w) == IF n = 0 THEN Num(0) ELSE JsTimes(w, n)

RECURSIVE SumTerms(_)
SumTerms(s) == IF s = <<>> THEN Num(0) ELSE JsAdd(Head(s), SumTerms(Tail(s)))

Repeat(x, n) == [i \in 1..n |-> x]

\* the sum of the weights of the contributions, from what fires on the input
\* and from the outcomes of the verifiers: the verifiers first, the
\* evaluators from the last of the table to the first
ExpectedScore(c, in, u, patterns, out) ==
    LET idn == isIdnHomograph(u, c.legitDomains)
    IN  SumTerms(<<
          Term(One(Contributes("phishTank", out["phishTank"])), Weight(c, "phishTank")),
          Term(IF out["virusTotal"].kind = "stats" THEN out["virusTotal"].n ELSE 0,
               Weight(c, "virusTotal")),
          Term(One(Contributes("safeBrowsing", out["safeBrowsing"])),
               Weight(c, "googleSafeBrowsing")),
          Term(One(Contributes("redirect", out["redirect"])), Weight(c, "redirect")),
          Term(One(Contributes("dns", out["dns"])), Weight(c, "dnsFailure")),
          Term(Len(MatchingPatterns(patterns, in, u)), Weight(c, "shortener")),
          Term(One(hasEncodedChars(u)), Weight(c, "encodedChars")),
          Term(One(containsAtSymbol(u)), Weight(c, "atSymbol")),
          Term(One(isNonHttps(u)), Weight(c, "nonHttps")),
          Term(One(isUrlLong(u)), Weight(c, "longUrl")),
          Term(Len(containsPhishingKeyword(u, c.phishingKeywords)), Weight(c, "keyword")),
          Term(One(hasSuspiciousTldOrDeepSubdomain(u, c.suspiciousTLDs)),
               Weight(c, "suspiciousTld")),
          Term(One(idn.idn /\ idn.match # 0), Weight(c, "idnSimilarity")),
          Term(One(idn.idn), Weight(c, "idnHomograph")),
          Term(One(domainSimilarity(u, c.legitDomains) # 0), Weight(c, "typosquatting")),
          Term(One(Includes(c.urlShorteners, getDomain(u))), Weight(c, "shortener")),
          Term(One(isIpAddress(u)), Weight(c, "ipAddress")) >>)

\* the feature values of the contributions that have one, in the same order:
\* the rejected DNS lookup first, the IP address last
ExpectedFeatures(c, in, u, patterns, out) ==
    LET typos == domainSimilarity(u, c.legitDomains)
    IN  Repeat(100, One(out["dns"].kind = "error"))
        \o Repeat(100, Len(MatchingPatterns(patterns, in, u)))
        \o Repeat(100, One(hasEncodedChars(u)))
        \o Repeat(100, One(containsAtSymbol(u)))
        \o Repeat(100, One(isNonHttps(u)))
        \o Repeat(UrlFacts[u].length, One(isUrlLong(u)))
        \o Repeat(100, Len(containsPhishingKeyword(u, c.phishingKeywords)))
        \o Repeat(100, One(hasSuspiciousTldOrDeepSubdomain(u, c.suspiciousTLDs)))
        \o Repeat(100, One(isIdnHomograph(u, c.legitDomains).idn))
        \o (IF typos # 0
            THEN <<compareTwoStrings(getDomain(u), c.legitDomains[typos])>>
            ELSE <<>>)
        \o Repeat(100, One(Includes(c.urlShorteners, getDomain(u))))
        \o Repeat(100, One(isIpAddress(u)))

\* C22: whatever the order in which the verifiers complete, while the call
\* waits and at the join the score is the sum of the weights of exactly the
\* evaluators and verifiers that have fired and the feature vector holds
\* exactly their feature values, as a multiset; the returned riskScore is the
\* clamp of that sum plus 50 times the fallback model's probability on those
\* values, so it is a function of the outcomes and not of their order.
C22_OrderIndependent ==
    /\ pc \in {"awaiting", "joined"} =>
          /\ riskScore = ExpectedScore(cfg, input, url, first.patterns, outcome)
          /\ BagOf(features) =
                BagOf(ExpectedFeatures(cfg, input, url, first.patterns, outcome))
    /\ (pc = "done" /\ mlConsulted) =>
          result.riskScore =
              Clamp(AddMl(ExpectedScore(cfg, input, url, first.patterns, outcome),
                          FallbackPredict(ExpectedFeatures(cfg, input, url,
                                                           first.patterns, outcome))))

\* C22 witness: at the join of a call on which evaluators have fired, the
\* redirect check has completed before the DNS lookup, which was started
\* first and was rejected, and both have contributed
C22_Witness ==
    /\ pc = "joined"
    /\ CompletionOrder(reasons) = <<"redirect", "dns">>
    /\ outcome["dns"].kind = "error"
    /\ Len(features) >= 2
    /\ ~riskScore.nan
    /\ riskScore.v > Points(Weights.redirect + Weights.dnsFailure).v


====
